---- MODULE Spec2Model ----
(***************************************************************************)
(* Entitlement & Usage Ledger of versiful_backend.                         *)
(*                                                                         *)
(* The model follows the Lambda handlers of the repository:                *)
(*   lambdas/sms/sms_handler.py, lambdas/sms/helpers.py  (quota, nudges)   *)
(*   lambdas/stripe_webhook/webhook_handler.py           (entitlements)    *)
(* Each invocation is a process; every DynamoDB call is one atomic step    *)
(* on the table it addresses, and the steps of different invocations       *)
(* interleave freely.                                                      *)
(*                                                                         *)
(* Conventions.  A Python value that may be None, and a DynamoDB attribute *)
(* or item that may be absent, is a set with at most one element: {} is    *)
(* None/absent, {v} is the value v.  A period key "YYYY-MM" is the pair    *)
(* <<year, month>>.                                                        *)
(***************************************************************************)
EXTENDS Integers, Sequences, FiniteSets, TLC

\* ---------------------------------------------------------------- bounds
\* Number of concurrent handler invocations.
NProcs == 2
\* Number of month changes of the UTC clock.
MaxTicks == 1
\* Number of concurrent calls in the consume_message_if_allowed harness.
MaxCalls == 3
\* Largest limit handed to the harness's calls.
MaxLimit == 3
\* Number of messages a phone sends within one month.
MaxMsgs == 6
\* Number of messages sent through send_sms.
MaxSends == 2
\* Largest number of notifications of one kind kept in the history.
MaxNotices == 2

\* ------------------------------------------------------ program constants
FREE_MONTHLY_LIMIT == 5
NUDGE_LIMIT == 3

Procs == 1..NProcs
Phones == {"p1"}
Users == {"u1"}

None == {}
Some(v) == {v}
Get(o) == CHOOSE x \in o : TRUE

\* First month of the model's clock: November 2025, counted in months.
FirstMonth == (2025 * 12) + 10
Months == FirstMonth..(FirstMonth + MaxTicks)
\* The month before the first: usage records may date from it.
LastMonth == FirstMonth - 1

\* current_period_key: f"{now.year}-{now.month:02d}" of a UTC instant whose
\* month count is n.
current_period_key(n) == << n \div 12, (n % 12) + 1 >>

VARIABLES
    clock,      \* the UTC clock, in months
    usage,      \* sms-usage table: phone -> item or absent
    users,      \* users table: userId -> item or absent
    pc,         \* position of each SMS handler invocation
    loc,        \* locals of each SMS handler invocation
    nudgeMsgs,  \* history: quota nudges handed to the gateway, by phone and period key
    stripe,     \* the payment processor's live subscription object
    msgNo,      \* history: messages received from each phone in the clock's month
    harness,    \* the concurrent callers of consume_message_if_allowed
    ledger,     \* chat-messages table: messageId -> item or absent
    gateway,    \* the SMS gateway: the messages it accepted and their callback URLs
    notices     \* history: lifecycle notifications handed to the gateway, by phone

vars == << clock, usage, users, pc, loc, nudgeMsgs, stripe, msgNo, harness,
           ledger, gateway, notices >>

\* ------------------------------------------------------- sms-usage items
NoUsageAttrs ==
    [periodKey |-> None, plan_messages_sent |-> None, nudges_sent |-> None,
     userId |-> None]

\* The attributes of a table entry; an update_item on a missing key starts
\* from an item with no attributes.
Attrs(item) == IF item = None THEN NoUsageAttrs ELSE Get(item)

\* DynamoDB if_not_exists(attr, v)
IfNotExists(attr, v) == IF attr = None THEN Some(v) ELSE attr

\* ensure_sms_usage_record: the item after its update_item (ALL_NEW).
ensure_sms_usage_record(item, user_id, now) ==
    LET a == Attrs(item) IN
    [periodKey |-> IfNotExists(a.periodKey, current_period_key(now)),
     plan_messages_sent |-> IfNotExists(a.plan_messages_sent, 0),
     nudges_sent |-> IfNotExists(a.nudges_sent, 0),
     userId |-> IF user_id # None THEN IfNotExists(a.userId, Get(user_id))
                ELSE a.userId]

\* A reset that moves the record to the new period and keeps its counters.
reset_keeping_counters(item, now) ==
    [Attrs(item) EXCEPT !.periodKey = Some(current_period_key(now))]

\* reset_sms_usage_period: the item after its unconditional update_item.
reset_sms_usage_period(item, now) ==
    LET a == Attrs(item) IN
    [a EXCEPT !.periodKey = Some(current_period_key(now)),
              !.plan_messages_sent = Some(0),
              !.nudges_sent = Some(0)]

\* The ConditionExpression with "<=" for "<": a record standing at the limit
\* is let through.
ConsumeConditionAtLimit(item, limit, period) ==
    LET a == Attrs(item) IN
    /\ (a.plan_messages_sent = None \/ Get(a.plan_messages_sent) <= limit)
    /\ (a.periodKey = None \/ a.periodKey = Some(period))

\* ConditionExpression of consume_message_if_allowed.
ConsumeCondition(item, limit, period) ==
    LET a == Attrs(item) IN
    /\ (a.plan_messages_sent = None \/ Get(a.plan_messages_sent) < limit)
    /\ (a.periodKey = None \/ a.periodKey = Some(period))

\* An UpdateExpression that counts a message twice.
ConsumeUpdateTwice(item, user_id, period) ==
    LET a == Attrs(item) IN
    [a EXCEPT !.plan_messages_sent = Some(Get(IfNotExists(a.plan_messages_sent, 0)) + 2),
              !.periodKey = Some(period),
              !.userId = IF user_id # None THEN IfNotExists(a.userId, Get(user_id))
                         ELSE a.userId]

\* UpdateExpression of consume_message_if_allowed.
ConsumeUpdate(item, user_id, period) ==
    LET a == Attrs(item) IN
    [a EXCEPT !.plan_messages_sent = Some(Get(IfNotExists(a.plan_messages_sent, 0)) + 1),
              !.periodKey = Some(period),
              !.userId = IF user_id # None THEN IfNotExists(a.userId, Get(user_id))
                         ELSE a.userId]

\* consume_message_if_allowed: the updated item, or None when the
\* conditional check fails.
consume_message_if_allowed(item, limit, user_id, now) ==
    IF ConsumeCondition(item, limit, current_period_key(now))
    THEN Some(ConsumeUpdate(item, user_id, current_period_key(now)))
    ELSE None

\* An increment that counts the nudge twice.
increment_nudge_twice(item) ==
    LET a == Attrs(item) IN
    [a EXCEPT !.nudges_sent = Some(Get(IfNotExists(a.nudges_sent, 0)) + 2)]

\* increment_nudge: the item after its update_item.
increment_nudge(item) ==
    LET a == Attrs(item) IN
    [a EXCEPT !.nudges_sent = Some(Get(IfNotExists(a.nudges_sent, 0)) + 1)]

\* A throttle that never lets a nudge through.
never_nudge(u) == FALSE

\* _should_nudge(usage): usage.get("nudges_sent", 0) < NUDGE_LIMIT
_should_nudge(u) ==
    LET a == Attrs(u) IN
    (IF a.nudges_sent = None THEN 0 ELSE Get(a.nudges_sent)) < NUDGE_LIMIT

\* ------------------------------------------------------------ users items
NoUserAttrs ==
    [phoneNumber |-> None, isSubscribed |-> None, plan |-> None,
     plan_monthly_cap |-> None, subscriptionStatus |-> None,
     cancelAtPeriodEnd |-> None, currentPeriodEnd |-> None,
     stripeCustomerId |-> None, stripeSubscriptionId |-> None,
     optedOut |-> None]

\* table.scan(FilterExpression=Attr("phoneNumber").eq(phone)): the matching keys.
ScanByPhone(p) ==
    {u \in Users : users[u] # None /\ Get(users[u]).phoneNumber = Some(p)}

\* response["Items"][0]: the table's scan order is stable.
FirstItem(S) == CHOOSE u \in S : TRUE

\* get_user_by_id
get_user_by_id(user_id) == users[user_id]

\* ------------------------------------------------- _evaluate_usage, pure part
\* _evaluate_usage without its "user_cap == -1" branch.
EvalBranchNoUnlimited(profile) ==
    IF profile # None /\ Get(profile).isSubscribed = Some(TRUE)
    THEN [reason |-> "subscribed", limit |-> None]
    ELSE IF profile # None /\ Get(profile).plan_monthly_cap # None
         THEN [reason |-> "", limit |-> Get(profile).plan_monthly_cap]
         ELSE [reason |-> "", limit |-> Some(FREE_MONTHLY_LIMIT)]

\* The branch _evaluate_usage takes on the profile it read: the reason it
\* returns without consuming, or the limit it hands to
\* consume_message_if_allowed.
EvalBranch(profile) ==
    IF profile # None /\ Get(profile).isSubscribed = Some(TRUE)
    THEN [reason |-> "subscribed", limit |-> None]
    ELSE IF profile # None /\ Get(profile).plan_monthly_cap # None
         THEN IF Get(Get(profile).plan_monthly_cap) = -1
              THEN [reason |-> "unlimited_cap", limit |-> None]
              ELSE [reason |-> "", limit |-> Get(profile).plan_monthly_cap]
         ELSE [reason |-> "", limit |-> Some(FREE_MONTHLY_LIMIT)]

\* --------------------------------------------- SMS handler invocations
IdleLoc ==
    [phone |-> "", seen |-> FirstMonth, now |-> FirstMonth, usage |-> None,
     user_id |-> None, profile |-> None, limit |-> None, reason |-> "",
     ret |-> "", consumed |-> FALSE, evalErr |-> FALSE, chat |-> FALSE,
     replied |-> FALSE, nudged |-> FALSE, status |-> 0, no |-> 0]

\* The locals that are still read from position p on; the others are dropped.
\* seen is the clock at the end of the step before one that reads the clock.
Live(p, l) ==
    [l EXCEPT
       !.seen = IF p \in {"get_read", "consume"} THEN clock ELSE FirstMonth,
       !.now = IF p \in {"get_ensure", "get_reset", "get_link"} THEN @ ELSE FirstMonth,
       !.usage = IF p \in {"nudge_inc", "nudge_send"} THEN @ ELSE None,
       !.user_id = IF p \in {"get_read", "get_ensure", "get_reset", "get_link",
                             "getuser", "consume"} THEN @ ELSE None,
       !.profile = IF p \in {"consume", "identify"}
                      \/ (p \in {"get_read", "get_ensure", "get_reset", "get_link"}
                          /\ l.ret = "denied")
                   THEN @ ELSE None]

\* One step of invocation i: its next position and locals.
Goto(i, next) ==
    /\ pc' = [pc EXCEPT ![i] = next[1]]
    /\ loc' = [loc EXCEPT ![i] = Live(next[1], next[2])]

\* return <response with statusCode s>
Return(l, s) == << "done", [l EXCEPT !.status = s] >>

\* The exception is swallowed and the message goes on to the responder.
RaiseIgnored(l, inEval) ==
    << "identify", [l EXCEPT !.evalErr = inEval, !.reason = "within_cap"] >>

\* An exception inside the handler's try block: the except clause answers 500.
\* inEval tells that a store call of _evaluate_usage raised it.
Raise(l, inEval) == Return([l EXCEPT !.evalErr = inEval], 500)

\* get_sms_usage is running for _evaluate_usage (lines 127 and 164).
InEval(l) == l.ret \in {"eval", "denied"}

\* handler, after _evaluate_usage returned allowed: on to _identify_sms_user.
Allowed(l, reason) == << "identify", [l EXCEPT !.reason = reason] >>

\* handler lines 617-625, after _evaluate_usage returned the denial.
Denied(l) ==
    LET d == [l EXCEPT !.reason = "quota_exceeded"] IN
    IF _should_nudge(d.usage) THEN << "nudge_inc", d >> ELSE Return(d, 200)

\* _evaluate_usage lines 131-154, on the profile read.
Decide(l) ==
    LET b == EvalBranch(l.profile) IN
    IF b.limit = None THEN Allowed([l EXCEPT !.limit = None], b.reason)
    ELSE << "consume", [l EXCEPT !.limit = b.limit] >>

\* The caller of get_sms_usage goes on with the record it returned.
Returned(l) ==
    CASE l.ret = "eval" ->
           IF Attrs(l.usage).userId # None
           THEN << "getuser", [l EXCEPT !.user_id = Attrs(l.usage).userId] >>
           ELSE Decide([l EXCEPT !.user_id = None, !.profile = None])
      [] l.ret = "denied" -> Denied(l)
      [] OTHER -> << "chat", l >>

\* get_sms_usage lines 359-362, with the record r it holds.
GetDone(l, r) ==
    IF l.user_id # None /\ Attrs(r).userId = None
    THEN << "get_link", [l EXCEPT !.usage = r] >>
    ELSE Returned([l EXCEPT !.usage = r])

\* handler lines 548-568: a non-keyword message from phone p arrives.
Receive(i, p) ==
    /\ pc[i] = "idle"
    /\ \A j \in Procs : j < i => pc[j] # "idle"
    /\ msgNo[p] < MaxMsgs
    /\ msgNo' = [msgNo EXCEPT ![p] = @ + 1]
    /\ Goto(i, << "optout", [IdleLoc EXCEPT !.phone = p, !.no = msgNo[p] + 1] >>)
    /\ UNCHANGED << clock, usage, users, nudgeMsgs, stripe, harness,
                   ledger, gateway, notices >>

\* handler lines 585-599: the opt-out check; a failing scan is ignored.
OptOutCheck(i, ok) ==
    /\ pc[i] = "optout"
    /\ LET l == loc[i]
           S == ScanByPhone(l.phone)
       IN  IF ok /\ S # {} /\ Get(users[FirstItem(S)]).optedOut = Some(TRUE)
           THEN Goto(i, Return(l, 200))
           ELSE Goto(i, << "first", l >>)
    /\ UNCHANGED << clock, usage, users, nudgeMsgs, stripe, msgNo, harness,
                   ledger, gateway, notices >>

\* handler lines 602-614: the first-time-texter check, then _evaluate_usage
\* starts with get_sms_usage(phone_number).
FirstTimeCheck(i, ok) ==
    /\ pc[i] = "first"
    /\ LET l == loc[i] IN
       IF ok THEN Goto(i, << "get_read", [l EXCEPT !.ret = "eval", !.user_id = None] >>)
       ELSE Goto(i, Raise(l, FALSE))
    /\ UNCHANGED << clock, usage, users, nudgeMsgs, stripe, msgNo, harness,
                   ledger, gateway, notices >>

\* get_sms_usage lines 349-357: read the clock, get_item, choose the branch.
GetRead(i, ok, now) ==
    /\ pc[i] = "get_read"
    /\ now \in loc[i].seen..clock
    /\ LET l == [loc[i] EXCEPT !.now = now]
           r == usage[l.phone]
       IN  IF ~ok THEN Goto(i, Raise(l, InEval(l)))
           ELSE IF r = None THEN Goto(i, << "get_ensure", l >>)
           ELSE IF Get(r).periodKey # Some(current_period_key(now))
                THEN Goto(i, << "get_reset", [l EXCEPT !.usage = r] >>)
           ELSE Goto(i, GetDone(l, r))
    /\ UNCHANGED << clock, usage, users, nudgeMsgs, stripe, msgNo, harness,
                   ledger, gateway, notices >>

\* get_sms_usage line 355: ensure_sms_usage_record for a missing record.
GetEnsure(i, ok) ==
    /\ pc[i] = "get_ensure"
    /\ LET l == loc[i]
           new == ensure_sms_usage_record(usage[l.phone], l.user_id, l.now)
       IN  IF ok
           THEN /\ usage' = [usage EXCEPT ![l.phone] = Some(new)]
                /\ Goto(i, GetDone(l, Some(new)))
           ELSE /\ usage' = usage
                /\ Goto(i, Raise(l, InEval(l)))
    /\ UNCHANGED << clock, users, nudgeMsgs, stripe, msgNo, harness,
                   ledger, gateway, notices >>

\* get_sms_usage line 357: reset_sms_usage_period for the record read earlier.
GetReset(i, ok) ==
    /\ pc[i] = "get_reset"
    /\ LET l == loc[i]
           new == reset_sms_usage_period(usage[l.phone], l.now)
       IN  IF ok
           THEN /\ usage' = [usage EXCEPT ![l.phone] = Some(new)]
                /\ Goto(i, GetDone(l, Some(new)))
           ELSE /\ usage' = usage
                /\ Goto(i, Raise(l, InEval(l)))
    /\ UNCHANGED << clock, users, nudgeMsgs, stripe, msgNo, harness,
                   ledger, gateway, notices >>

\* get_sms_usage lines 359-360: link the record to the user.
GetLink(i, ok) ==
    /\ pc[i] = "get_link"
    /\ LET l == loc[i]
           new == ensure_sms_usage_record(usage[l.phone], l.user_id, l.now)
       IN  IF ok
           THEN /\ usage' = [usage EXCEPT ![l.phone] = Some(new)]
                /\ Goto(i, Returned([l EXCEPT !.usage = Some(new)]))
           ELSE /\ usage' = usage
                /\ Goto(i, Raise(l, InEval(l)))
    /\ UNCHANGED << clock, users, nudgeMsgs, stripe, msgNo, harness,
                   ledger, gateway, notices >>

\* _evaluate_usage line 129: get_user_by_id, then the decision.
GetUser(i, ok) ==
    /\ pc[i] = "getuser"
    /\ LET l == loc[i] IN
       IF ok THEN Goto(i, Decide([l EXCEPT !.profile = get_user_by_id(Get(l.user_id))]))
       ELSE Goto(i, Raise(l, TRUE))
    /\ UNCHANGED << clock, usage, users, nudgeMsgs, stripe, msgNo, harness,
                   ledger, gateway, notices >>

\* _evaluate_usage lines 154-164: consume_message_if_allowed reads the clock
\* and makes its conditional write; on None the record is read again.
Consume(i, ok, now) ==
    /\ pc[i] = "consume"
    /\ now \in loc[i].seen..clock
    /\ LET l == [loc[i] EXCEPT !.consumed = TRUE]
           updated == consume_message_if_allowed(usage[l.phone], Get(l.limit), l.user_id, now)
       IN  IF ~ok
           THEN /\ usage' = usage
                /\ Goto(i, Raise(l, TRUE))
           ELSE IF updated # None
           THEN /\ usage' = [usage EXCEPT ![l.phone] = updated]
                /\ Goto(i, Allowed([l EXCEPT !.usage = updated], "within_cap"))
           ELSE /\ usage' = usage
                /\ Goto(i, << "get_read", [l EXCEPT !.ret = "denied"] >>)
    /\ UNCHANGED << clock, users, nudgeMsgs, stripe, msgNo, harness,
                   ledger, gateway, notices >>

\* handler line 621: increment_nudge.
NudgeInc(i, ok) ==
    /\ pc[i] = "nudge_inc"
    /\ LET l == loc[i] IN
       IF ok
       THEN /\ usage' = [usage EXCEPT ![l.phone] = Some(increment_nudge(usage[l.phone]))]
            /\ Goto(i, << "nudge_send", l >>)
       ELSE /\ usage' = usage
            /\ Goto(i, Raise(l, FALSE))
    /\ UNCHANGED << clock, users, nudgeMsgs, stripe, msgNo, harness,
                   ledger, gateway, notices >>

\* The period key the nudge text is composed for (handler line 618).
NudgePeriod(l) ==
    IF Attrs(l.usage).periodKey # None THEN Get(Attrs(l.usage).periodKey)
    ELSE current_period_key(clock)

\* handler lines 622-625: send_message with the quota-exhausted text.
NudgeSend(i, sent) ==
    /\ pc[i] = "nudge_send"
    /\ LET l == loc[i] IN
       IF sent
       THEN /\ nudgeMsgs' = [nudgeMsgs EXCEPT ![l.phone][NudgePeriod(l)] = @ + 1]
            /\ Goto(i, Return([l EXCEPT !.nudged = TRUE], 200))
       ELSE /\ nudgeMsgs' = nudgeMsgs
            /\ Goto(i, Return(l, 500))
    /\ UNCHANGED << clock, usage, users, stripe, msgNo, harness,
                   ledger, gateway, notices >>

\* handler lines 627-632 and _identify_sms_user: a registered sender is
\* identified by its userId; otherwise _get_or_create_posthog_id calls
\* get_sms_usage(phone_number), unless the analytics client is missing.
Identify(i, posthog) ==
    /\ pc[i] = "identify"
    /\ LET l == loc[i] IN
       IF posthog /\ l.profile = None
       THEN Goto(i, << "get_read", [l EXCEPT !.ret = "identify", !.user_id = None] >>)
       ELSE Goto(i, << "chat", l >>)
    /\ UNCHANGED << clock, usage, users, nudgeMsgs, stripe, msgNo, harness,
                   ledger, gateway, notices >>

\* handler lines 636-660: invoke the chat Lambda (the responder).
InvokeChat(i, success) ==
    /\ pc[i] = "chat"
    /\ LET l == [loc[i] EXCEPT !.chat = TRUE] IN
       IF success THEN Goto(i, << "reply", l >>)
       ELSE Goto(i, Return(l, 500))
    /\ UNCHANGED << clock, usage, users, nudgeMsgs, stripe, msgNo, harness,
                   ledger, gateway, notices >>

\* handler lines 662-667: send the responder's reply.
Reply(i, sent) ==
    /\ pc[i] = "reply"
    /\ LET l == loc[i] IN
       IF sent THEN Goto(i, Return([l EXCEPT !.replied = TRUE], 200))
       ELSE Goto(i, Return(l, 500))
    /\ UNCHANGED << clock, usage, users, nudgeMsgs, stripe, msgNo, harness,
                   ledger, gateway, notices >>

\* The invocation ends; its slot serves the next request.
Finish(i) ==
    /\ pc[i] = "done"
    /\ pc' = [pc EXCEPT ![i] = "idle"]
    /\ loc' = [loc EXCEPT ![i] = IdleLoc]
    /\ UNCHANGED << clock, usage, users, nudgeMsgs, stripe, msgNo, harness,
                   ledger, gateway, notices >>

\* The UTC month changes.
Tick ==
    /\ clock < FirstMonth + MaxTicks
    /\ clock' = clock + 1
    /\ msgNo' = [p \in Phones |-> 0]
    /\ UNCHANGED << usage, users, pc, loc, nudgeMsgs, stripe, harness,
                   ledger, gateway, notices >>

\* ------------------------------------------------ Stripe webhook handler
\* The attributes of a users table entry; update_item on a missing key
\* starts from an item with no attributes.
UserAttrs(item) == IF item = None THEN NoUserAttrs ELSE Get(item)

\* plan = "monthly" if plan_interval == "month" else "annual"
PlanOf(interval) == IF interval = "month" THEN "monthly" ELSE "annual"

\* A test that looks at the cancel_at_period_end flag only.
IsCancelingFlagOnly(sub) == sub.cancel_at_period_end

\* subscription.get('cancel_at_period_end', False) or
\* subscription.get('cancel_at') is not None
IsCanceling(sub) == sub.cancel_at_period_end \/ sub.cancel_at # None

\* "if period_end:" adds ", currentPeriodEnd = :period_end" to the update.
WithPeriodEnd(old, sub) ==
    IF sub.current_period_end # None THEN sub.current_period_end ELSE old

\* A checkout update that takes every plan for the monthly one.
CheckoutAlwaysMonthly(a, session, sub) ==
    [a EXCEPT !.stripeCustomerId = Some(session.customer),
              !.stripeSubscriptionId = session.subscription,
              !.isSubscribed = Some(TRUE),
              !.plan = Some("monthly"),
              !.plan_monthly_cap = Some(-1),
              !.subscriptionStatus = Some(sub.status),
              !.cancelAtPeriodEnd = Some(sub.cancel_at_period_end \/ sub.cancel_at # None),
              !.currentPeriodEnd = IF sub.current_period_end # None
                                   THEN sub.current_period_end ELSE @]

\* handle_checkout_completed: the item its update_item leaves.
CheckoutUpdate(a, session, sub) ==
    [a EXCEPT !.stripeCustomerId = Some(session.customer),
              !.stripeSubscriptionId = session.subscription,
              !.isSubscribed = Some(TRUE),
              !.plan = Some(PlanOf(sub.interval)),
              !.plan_monthly_cap = Some(-1),
              !.subscriptionStatus = Some(sub.status),
              !.cancelAtPeriodEnd = Some(IsCanceling(sub)),
              !.currentPeriodEnd = WithPeriodEnd(@, sub)]

\* handle_subscription_updated: the item its update_item leaves.
SubscriptionUpdatedUpdate(a, sub) ==
    [a EXCEPT !.subscriptionStatus = Some(sub.status),
              !.plan = Some(PlanOf(sub.interval)),
              !.plan_monthly_cap = Some(IF sub.status \in {"active", "trialing"} THEN -1 ELSE 5),
              !.cancelAtPeriodEnd = Some(IsCanceling(sub)),
              !.isSubscribed = Some(sub.status \in {"active", "trialing"}),
              !.currentPeriodEnd = WithPeriodEnd(@, sub)]

\* A deletion that zeroes currentPeriodEnd instead of removing it.
SubscriptionDeletedZeroes(a) ==
    [a EXCEPT !.isSubscribed = Some(FALSE),
              !.plan = Some("free"),
              !.plan_monthly_cap = Some(5),
              !.subscriptionStatus = Some("canceled"),
              !.cancelAtPeriodEnd = Some(FALSE),
              !.currentPeriodEnd = Some(0)]

\* handle_subscription_deleted: the item its update_item leaves.
SubscriptionDeletedUpdate(a) ==
    [a EXCEPT !.isSubscribed = Some(FALSE),
              !.plan = Some("free"),
              !.plan_monthly_cap = Some(5),
              !.subscriptionStatus = Some("canceled"),
              !.cancelAtPeriodEnd = Some(FALSE),
              !.currentPeriodEnd = None]

\* A failed payment that ends the entitlement at once, past_due included.
PaymentFailedNoGrace(a, sub) ==
    [a EXCEPT !.subscriptionStatus = Some(sub.status),
              !.isSubscribed = Some(FALSE),
              !.plan_monthly_cap = Some(5)]

\* handle_payment_failed: the item its update_item leaves, sub being the
\* subscription retrieved from the processor.
PaymentFailedUpdate(a, sub) ==
    [a EXCEPT !.subscriptionStatus = Some(sub.status),
              !.isSubscribed = Some(sub.status = "past_due"),
              !.plan_monthly_cap = Some(IF sub.status = "past_due" THEN -1 ELSE 5)]

\* A paid invoice that grants the entitlement by the live status.
PaymentSucceededByStatus(a, sub) ==
    [a EXCEPT !.subscriptionStatus = Some(sub.status),
              !.isSubscribed = Some(sub.status \in {"active", "trialing"}),
              !.plan_monthly_cap = Some(IF sub.status \in {"active", "trialing"} THEN -1 ELSE 5),
              !.currentPeriodEnd = WithPeriodEnd(@, sub)]

\* An update that extends the stored period end by the paid period instead
\* of overwriting it.
PaymentSucceededExtends(a, sub) ==
    [a EXCEPT !.subscriptionStatus = Some(sub.status),
              !.isSubscribed = Some(TRUE),
              !.plan_monthly_cap = Some(-1),
              !.currentPeriodEnd =
                  IF @ # None /\ sub.current_period_end # None
                  THEN Some(Get(@) + 2678400)
                  ELSE WithPeriodEnd(@, sub)]

\* handle_payment_succeeded: the item its update_item leaves.
PaymentSucceededUpdate(a, sub) ==
    [a EXCEPT !.subscriptionStatus = Some(sub.status),
              !.isSubscribed = Some(TRUE),
              !.plan_monthly_cap = Some(-1),
              !.currentPeriodEnd = WithPeriodEnd(@, sub)]

\* The users table with user u's item replaced.
PutUser(tbl, u, a) == [tbl EXCEPT ![u] = Some(a)]

\* The event handlers: the users table each leaves.  tbl is the table, live
\* the subscription stripe.Subscription.retrieve returns, e the event.
handle_checkout_completed(tbl, live, e) ==
    IF e.userId = None THEN tbl
    ELSE PutUser(tbl, Get(e.userId), CheckoutUpdate(UserAttrs(tbl[Get(e.userId)]), e, live))

\* A lookup that falls back to any user holding a customer id.
ResolveAnyCustomer(tbl, c) ==
    LET S == {u \in Users : tbl[u] # None /\ Get(tbl[u]).stripeCustomerId = Some(c)}
        T == {u \in Users : tbl[u] # None /\ Get(tbl[u]).stripeCustomerId # None}
    IN  IF S # {} THEN Some(FirstItem(S))
        ELSE IF T # {} THEN Some(FirstItem(T)) ELSE None

\* The user an event's customer id resolves to: Items[0] of
\* table.scan(FilterExpression=Attr("stripeCustomerId").eq(customer_id)).
Resolve(tbl, c) ==
    LET S == {u \in Users : tbl[u] # None /\ Get(tbl[u]).stripeCustomerId = Some(c)} IN
    IF S = {} THEN None ELSE Some(FirstItem(S))

handle_subscription_updated(tbl, e) ==
    LET u == Resolve(tbl, e.customer) IN
    IF u = None THEN tbl
    ELSE PutUser(tbl, Get(u), SubscriptionUpdatedUpdate(Get(tbl[Get(u)]), e.snap))

handle_subscription_deleted(tbl, e) ==
    LET u == Resolve(tbl, e.customer) IN
    IF u = None THEN tbl
    ELSE PutUser(tbl, Get(u), SubscriptionDeletedUpdate(Get(tbl[Get(u)])))

handle_payment_failed(tbl, live, e) ==
    LET u == Resolve(tbl, e.customer) IN
    IF e.subscription = None \/ u = None THEN tbl
    ELSE PutUser(tbl, Get(u), PaymentFailedUpdate(Get(tbl[Get(u)]), live))

handle_payment_succeeded(tbl, live, e) ==
    LET u == Resolve(tbl, e.customer) IN
    IF e.subscription = None \/ u = None THEN tbl
    ELSE PutUser(tbl, Get(u), PaymentSucceededUpdate(Get(tbl[Get(u)]), live))

\* handler lines 84-99: the routing on the event type.
Route(tbl, live, e) ==
    CASE e.type = "checkout.session.completed" -> handle_checkout_completed(tbl, live, e)
      [] e.type = "customer.subscription.updated" -> handle_subscription_updated(tbl, e)
      [] e.type = "customer.subscription.deleted" -> handle_subscription_deleted(tbl, e)
      [] e.type = "invoice.payment_succeeded" -> handle_payment_succeeded(tbl, live, e)
      [] e.type = "invoice.payment_failed" -> handle_payment_failed(tbl, live, e)
      [] OTHER -> tbl

\* A handler that only checks that the signature header is there.
WebhookHandlerHeaderOnly(tbl, live, e, ok) ==
    IF e.sig = "missing" THEN [statusCode |-> 400, users |-> tbl]
    ELSE IF ~ok THEN [statusCode |-> 500, users |-> tbl]
    ELSE [statusCode |-> 200, users |-> Route(tbl, live, e)]

\* handler: the response and the users table one webhook request leaves.
\* ok is false when a processor or store call of the event handler raises
\* before its update_item.
WebhookHandler(tbl, live, e, ok) ==
    IF e.sig = "missing" THEN [statusCode |-> 400, users |-> tbl]
    ELSE IF e.sig # "valid" THEN [statusCode |-> 400, users |-> tbl]
    ELSE IF ~ok THEN [statusCode |-> 500, users |-> tbl]
    ELSE [statusCode |-> 200, users |-> Route(tbl, live, e)]

\* The kinds of lifecycle notification of sms_notifications.
NoticeKinds == {"confirmation", "cancellation"}

\* The notification history is not kept.
NoNotices ==
    [on |-> FALSE,
     sent |-> [p \in Phones |-> [k \in NoticeKinds |-> 0]],
     optedOut |-> [p \in Phones |-> {}]]

\* The lifecycle notifications the handler of a verified event hands to the
\* gateway: the confirmation of handle_checkout_completed to the phone of
\* the item it reads back, the cancellation notice of
\* handle_subscription_deleted to the phone of the user it resolved.
Notifications(tbl, live, e) ==
    CASE e.type = "checkout.session.completed" /\ e.userId # None ->
           LET a == Get(handle_checkout_completed(tbl, live, e)[Get(e.userId)]) IN
           IF a.phoneNumber = None THEN {}
           ELSE {[phone |-> Get(a.phoneNumber), kind |-> "confirmation"]}
      [] e.type = "customer.subscription.deleted" /\ Resolve(tbl, e.customer) # None ->
           LET a == Get(tbl[Get(Resolve(tbl, e.customer))]) IN
           IF a.phoneNumber = None THEN {}
           ELSE {[phone |-> Get(a.phoneNumber), kind |-> "cancellation"]}
      [] OTHER -> {}

\* Whether the history, when kept, has room for the notifications N.
Room(N) ==
    notices.on => \A n \in N : notices.sent[n.phone][n.kind] < MaxNotices

\* The history after the notifications N were handed to the gateway; those
\* not sent in reply to a keyword are noted as sent to an opted-out user
\* when the phone's user item in tbl has optedOut true.
Noted(tbl, N, reply) ==
    IF ~notices.on THEN notices
    ELSE [notices EXCEPT
            !.sent = [p \in Phones |-> [k \in NoticeKinds |->
                        @[p][k] + IF [phone |-> p, kind |-> k] \in N THEN 1 ELSE 0]],
            !.optedOut = [p \in Phones |->
                        @[p] \cup {n.kind : n \in {x \in N :
                            /\ ~reply
                            /\ x.phone = p
                            /\ \E u \in Users :
                                 /\ tbl[u] # None
                                 /\ Get(tbl[u]).phoneNumber = Some(p)
                                 /\ Get(tbl[u]).optedOut = Some(TRUE)}}]]

\* One webhook request is handled.
Deliver(e, ok) ==
    LET N == IF e.sig = "valid" /\ ok THEN Notifications(users, stripe, e) ELSE {} IN
    /\ Room(N)
    /\ users' = WebhookHandler(users, stripe, e, ok).users
    /\ notices' = Noted(users, N, FALSE)
    /\ UNCHANGED << clock, usage, pc, loc, nudgeMsgs, stripe, msgNo, harness,
                   ledger, gateway >>

\* The processor changes one attribute of the subscription (renewal,
\* dunning, cancellation, plan switch).
StripeChange(sub) ==
    /\ Cardinality({f \in DOMAIN stripe : sub[f] # stripe[f]}) = 1
    /\ stripe' = sub
    /\ UNCHANGED << clock, usage, users, pc, loc, nudgeMsgs, msgNo, harness,
                   ledger, gateway, notices >>

\* ------------------------------------------------- webhook event inputs
PeriodEnds == {1735689600, 1738368000}
CancelAts == {1736000000}

Subscriptions(statuses, intervals, ends, cancels) ==
    [status : statuses, interval : intervals, current_period_end : ends,
     cancel_at_period_end : BOOLEAN, cancel_at : cancels]

\* Subscription objects of the processor.
AllSubscriptions ==
    Subscriptions({"active", "trialing", "past_due", "canceled", "unpaid"},
                  {"month", "year"},
                  {None} \cup {Some(t) : t \in PeriodEnds},
                  {None} \cup {Some(t) : t \in CancelAts})

\* A monthly subscription in good standing.
ActiveMonthly ==
    [status |-> "active", interval |-> "month",
     current_period_end |-> Some(1735689600),
     cancel_at_period_end |-> FALSE, cancel_at |-> None]

NoSnap ==
    [status |-> "", interval |-> "", current_period_end |-> None,
     cancel_at_period_end |-> FALSE, cancel_at |-> None]

Event(type, customer, subscription, userId, snap) ==
    [type |-> type, sig |-> "valid", customer |-> customer,
     subscription |-> subscription, userId |-> userId, snap |-> snap]

Customers == {"cus_1", "cus_x"}

\* The verified events of user u1's customer cus_1 and of a customer no
\* user carries, with subscription snapshots drawn from subs.
Events(subs) ==
    {Event("checkout.session.completed", "cus_1", Some("sub_1"), uid, NoSnap) :
        uid \in {None, Some("u1")}}
    \cup {Event("customer.subscription.updated", "cus_1", Some("sub_1"), None, sn) :
            sn \in subs}
    \cup {Event("customer.subscription.updated", "cus_x", Some("sub_1"), None, ActiveMonthly)}
    \cup {Event(t, c, Some("sub_1"), None, NoSnap) :
            t \in {"customer.subscription.deleted", "customer.subscription.created"},
            c \in Customers}
    \cup {Event(t, c, sid, None, NoSnap) :
            t \in {"invoice.payment_succeeded", "invoice.payment_failed"},
            c \in Customers, sid \in {None, Some("sub_1")}}

\* ------------------------------------------------------- initial states
PeriodKeys == {current_period_key(n) : n \in LastMonth..(FirstMonth + MaxTicks)}

\* create_user: put_item(Item={"userId": user_id})
NewUser == NoUserAttrs

\* update_user_settings with a phoneNumber: the user item carries the phone
\* and ensure_sms_usage_record (users/helpers.py) links the usage item.
RegisteredUser(p) == [NoUserAttrs EXCEPT !.phoneNumber = Some(p)]
LinkedUsage(u) == [NoUsageAttrs EXCEPT !.userId = Some(u)]

\* The usage items a phone has after earlier messages of a sender bounded
\* by limit: counted in month m, nudged only once the limit was reached.
UsedItems(user_id, limit) ==
    {[periodKey |-> Some(current_period_key(m)), plan_messages_sent |-> Some(c),
      nudges_sent |-> Some(n), userId |-> user_id] :
        m \in {LastMonth, FirstMonth}, c \in 0..limit, n \in 0..NUDGE_LIMIT}
    \ {it \in [periodKey : {Some(k) : k \in PeriodKeys},
                plan_messages_sent : {Some(c) : c \in 0..limit},
                nudges_sent : {Some(n) : n \in 0..NUDGE_LIMIT},
                userId : {user_id}] :
          Get(it.nudges_sent) > 0 /\ Get(it.plan_messages_sent) < limit}

\* The tables when the invocations start: the user exists and has or has
\* not registered the phone; the phone has no usage item yet, or the one
\* registration made, or one left by earlier messages.
InitTables ==
    \E reg \in BOOLEAN :
      /\ users = [u \in Users |-> Some(IF reg THEN RegisteredUser("p1") ELSE NewUser)]
      /\ \E it \in (IF reg THEN {Some(LinkedUsage("u1"))} ELSE {None})
                     \cup {Some(x) : x \in UsedItems(IF reg THEN Some("u1") ELSE None,
                                                     FREE_MONTHLY_LIMIT)} :
           usage = [p \in Phones |-> it]

\* ------------------------------------------------ chat-messages items
\* uuid.uuid4(): the n-th identifier drawn.  Uuid(0) names an item that
\* carries a costs map, the path update_sms_cost's SET costs.twilio
\* addresses; the items send_sms puts carry none.
Uuid(n) ==
    CASE n = 0 -> "m0" [] n = 1 -> "m1" [] n = 2 -> "m2" [] n = 3 -> "m3"
      [] n = 4 -> "m4" [] OTHER -> "m5"

\* twilio_message.sid of the n-th message the gateway accepts.
Sid(n) ==
    CASE n = 1 -> "SM1" [] n = 2 -> "SM2" [] n = 3 -> "SM3"
      [] n = 4 -> "SM4" [] OTHER -> "SM5"

\* The identifiers of the table's index; the last one is never drawn.
MessageIds == {Uuid(n) : n \in 0..MaxSends + 1}

\* message_record of send_sms, as far as the cost update reads it: no
\* costs attribute, twilioSid not yet set.
MessageRecord == [costs |-> None, twilioSid |-> None]

\* An item with a costs map that has no twilio entry yet.
CostedRecord == [costs |-> Some([twilio |-> None]), twilioSid |-> None]

EmptyLedger == [m \in MessageIds |-> None]

\* The gateway has accepted no message and answered no callback.
IdleGateway ==
    [accepted |-> [n \in 1..MaxSends |-> None],
     answered |-> [n \in 1..MaxSends |-> {}]]

\* The message ledger is empty and the gateway idle.
InitAside ==
    /\ ledger = EmptyLedger
    /\ gateway = IdleGateway
    /\ notices = NoNotices

\* The harness is not in use.
NoHarness ==
    [c |-> 0, limit |-> 0, calls |-> [k \in 1..MaxCalls |-> "unused"]]

\* No invocation has started; the nudge texts of the record's period are
\* the ones its nudges_sent counted.
InitProcs ==
    /\ pc = [i \in Procs |-> "idle"]
    /\ loc = [i \in Procs |-> IdleLoc]
    /\ nudgeMsgs = [p \in Phones |-> [k \in PeriodKeys |->
                      IF Attrs(usage[p]).periodKey = Some(k)
                      THEN Get(Attrs(usage[p]).nudges_sent) ELSE 0]]
    /\ msgNo = [p \in Phones |-> 0]

Init ==
    /\ clock = FirstMonth
    /\ InitTables
    /\ InitProcs
    /\ InitAside
    /\ harness = NoHarness
    /\ stripe = ActiveMonthly

\* The steps of invocation i when no call fails.
SmsStep(i) ==
    \/ OptOutCheck(i, TRUE)
    \/ FirstTimeCheck(i, TRUE)
    \/ \E now \in Months : GetRead(i, TRUE, now)
    \/ GetEnsure(i, TRUE)
    \/ GetReset(i, TRUE)
    \/ GetUser(i, TRUE)
    \/ \E now \in Months : Consume(i, TRUE, now)
    \/ NudgeInc(i, TRUE)
    \/ NudgeSend(i, TRUE)
    \/ \E posthog \in BOOLEAN : Identify(i, posthog)
    \/ \E success \in BOOLEAN : InvokeChat(i, success)
    \/ Reply(i, TRUE)

\* Concurrent invocations of the SMS handler for one phone, one request
\* each, while the month may change.
Next ==
    \/ \E i \in Procs, p \in Phones : Receive(i, p)
    \/ \E i \in Procs : SmsStep(i)
    \/ Tick

Spec == Init /\ [][Next]_vars

\* ------------------------------------------- usage ledger with webhooks
\* The phone is registered to user u1, whose entitlement the webhook events
\* of customer cus_1 rewrite while the phone's messages are handled.  The
\* record is fresh, or one or no message short of the free limit.
InitLedger ==
    /\ clock = FirstMonth
    /\ users = [u \in Users |-> Some(RegisteredUser("p1"))]
    /\ \E it \in {LinkedUsage("u1")}
                   \cup {x \in UsedItems(Some("u1"), FREE_MONTHLY_LIMIT) :
                           /\ Get(x.plan_messages_sent) >= FREE_MONTHLY_LIMIT - 1
                           /\ Get(x.nudges_sent) = 0} :
         usage = [p \in Phones |-> Some(it)]
    /\ InitProcs
    /\ InitAside
    /\ harness = NoHarness
    /\ stripe = ActiveMonthly

LedgerEvents ==
    {e \in Events({}) :
       /\ e.customer = "cus_1"
       /\ e.subscription # None
       /\ \/ e.type = "checkout.session.completed" /\ e.userId # None
          \/ e.type \in {"customer.subscription.deleted", "invoice.payment_failed",
                         "invoice.payment_succeeded"}}

\* The steps of invocation i for a registered phone.
LedgerSmsStep(i) ==
    \/ OptOutCheck(i, TRUE)
    \/ FirstTimeCheck(i, TRUE)
    \/ \E now \in Months : GetRead(i, TRUE, now)
    \/ GetReset(i, TRUE)
    \/ GetUser(i, TRUE)
    \/ \E now \in Months : Consume(i, TRUE, now)
    \/ NudgeInc(i, TRUE)
    \/ NudgeSend(i, TRUE)
    \/ \E posthog \in BOOLEAN : Identify(i, posthog)
    \/ InvokeChat(i, TRUE)
    \/ Reply(i, TRUE)

LedgerNext ==
    \/ \E i \in Procs, p \in Phones : Receive(i, p)
    \/ \E i \in Procs : LedgerSmsStep(i)
    \/ \E e \in LedgerEvents : Deliver(e, TRUE)

SpecLedger == InitLedger /\ [][LedgerNext]_vars

\* ------------------------------------------------ one request at a time
\* A phone's messages handled one after the other from the tables as they
\* are before its first message; the month changes between requests.
InitSeq ==
    /\ clock = FirstMonth
    /\ \E reg \in BOOLEAN :
         /\ users = [u \in Users |-> Some(IF reg THEN RegisteredUser("p1") ELSE NewUser)]
         /\ usage = [p \in Phones |-> IF reg THEN Some(LinkedUsage("u1")) ELSE None]
    /\ InitProcs
    /\ InitAside
    /\ harness = NoHarness
    /\ stripe = ActiveMonthly

\* The month changes while no request is being handled.
IdleTick ==
    /\ \A i \in Procs : pc[i] = "idle"
    /\ Tick

SeqNext ==
    \/ \E p \in Phones : Receive(1, p)
    \/ SmsStep(1)
    \/ Finish(1)
    \/ IdleTick

SpecSeq == InitSeq /\ [][SeqNext]_vars

\* --------------------------------------------- evaluation of any profile
\* plan_monthly_cap values a users item may carry.
EvalCaps == {-2, -1, 0, 2, FREE_MONTHLY_LIMIT}

\* The users items _evaluate_usage may read for a registered phone.
EvalProfiles ==
    {[RegisteredUser("p1") EXCEPT !.isSubscribed = s, !.plan_monthly_cap = c] :
        s \in {None, Some(TRUE), Some(FALSE)},
        c \in {None} \cup {Some(n) : n \in EvalCaps}}

\* The phone has no usage record, or one linked to user u1, whose item is
\* any profile or is missing.
InitEval ==
    /\ clock = FirstMonth
    /\ \/ /\ users = [u \in Users |-> Some(NewUser)]
          /\ usage = [p \in Phones |-> None]
       \/ /\ \E prof \in {None} \cup {Some(x) : x \in EvalProfiles} :
               users = [u \in Users |-> prof]
          /\ usage = [p \in Phones |-> Some(LinkedUsage("u1"))]
    /\ InitProcs
    /\ InitAside
    /\ harness = NoHarness
    /\ stripe = ActiveMonthly

\* The steps of invocation i, each store or messaging call failing or not.
EvalStep(i) ==
    \/ \E ok \in BOOLEAN : OptOutCheck(i, ok)
    \/ \E ok \in BOOLEAN : FirstTimeCheck(i, ok)
    \/ \E ok \in BOOLEAN, now \in Months : GetRead(i, ok, now)
    \/ \E ok \in BOOLEAN : GetEnsure(i, ok)
    \/ \E ok \in BOOLEAN : GetReset(i, ok)
    \/ \E ok \in BOOLEAN : GetUser(i, ok)
    \/ \E ok \in BOOLEAN, now \in Months : Consume(i, ok, now)
    \/ \E ok \in BOOLEAN : NudgeInc(i, ok)
    \/ \E sent \in BOOLEAN : NudgeSend(i, sent)
    \/ \E posthog \in BOOLEAN : Identify(i, posthog)
    \/ \E success \in BOOLEAN : InvokeChat(i, success)
    \/ \E sent \in BOOLEAN : Reply(i, sent)

EvalNext ==
    \/ \E p \in Phones : Receive(1, p)
    \/ EvalStep(1)
    \/ Finish(1)

SpecEval == InitEval /\ [][EvalNext]_vars

\* ------------------------------ concurrent consume_message_if_allowed calls
\* One call of consume_message_if_allowed(phone, limit) by caller k.
ConsumeCall(k) ==
    /\ harness.calls[k] = "pending"
    /\ LET updated == consume_message_if_allowed(usage["p1"], harness.limit, None, clock) IN
       IF updated # None
       THEN /\ usage' = [usage EXCEPT !["p1"] = updated]
            /\ harness' = [harness EXCEPT !.calls[k] = "updated"]
       ELSE /\ usage' = usage
            /\ harness' = [harness EXCEPT !.calls[k] = "none"]
    /\ UNCHANGED << clock, users, pc, loc, nudgeMsgs, stripe, msgNo,
                   ledger, gateway, notices >>

\* The record is in the current period with count c <= limit, and callers
\* 1..m are about to call.
InitConsume ==
    /\ clock = FirstMonth
    /\ users = [u \in Users |-> Some(NewUser)]
    /\ \E limit \in 0..MaxLimit, m \in 0..MaxCalls : \E c \in 0..limit :
         /\ usage = [p \in Phones |->
                      Some([periodKey |-> Some(current_period_key(clock)),
                            plan_messages_sent |-> Some(c),
                            nudges_sent |-> Some(0), userId |-> None])]
         /\ harness = [c |-> c, limit |-> limit,
                       calls |-> [k \in 1..MaxCalls |->
                                    IF k <= m THEN "pending" ELSE "unused"]]
    /\ InitProcs
    /\ InitAside
    /\ stripe = ActiveMonthly

ConsumeNext == \E k \in 1..MaxCalls : ConsumeCall(k)

SpecConsume == InitConsume /\ [][ConsumeNext]_vars

\* ------------------------------------------------- webhook deliveries
\* The subscription as the processor holds it; a scheduled cancellation
\* shows as cancel_at_period_end.
LiveSubscriptions == {sub \in AllSubscriptions : sub.cancel_at = None}

\* The verified events the processor may deliver.
WebhookEvents == Events(AllSubscriptions)

InitWebhook ==
    /\ clock = FirstMonth
    /\ \E reg \in BOOLEAN :
         /\ users = [u \in Users |-> Some(IF reg THEN RegisteredUser("p1") ELSE NewUser)]
         /\ usage = [p \in Phones |-> IF reg THEN Some(LinkedUsage("u1")) ELSE None]
    /\ InitProcs
    /\ InitAside
    /\ harness = NoHarness
    /\ stripe = ActiveMonthly

WebhookNext ==
    \/ \E e \in WebhookEvents : Deliver(e, TRUE)
    \/ \E sub \in LiveSubscriptions : StripeChange(sub)

SpecWebhook == InitWebhook /\ [][WebhookNext]_vars

\* ---------------------------------------------------- keyword commands
\* The user a phone number resolves to: Items[0] of
\* table.scan(FilterExpression=Attr("phoneNumber").eq(phone_number)).
PhoneUser(tbl, p) ==
    LET S == {u \in Users : tbl[u] # None /\ Get(tbl[u]).phoneNumber = Some(p)} IN
    IF S = {} THEN None ELSE Some(FirstItem(S))

\* user.get("isSubscribed") and user.get("stripeSubscriptionId")
HasSubscription(a) == a.isSubscribed = Some(TRUE) /\ a.stripeSubscriptionId # None

\* stripe.Subscription.delete(stripe_subscription_id)
Cancelled(live) == [live EXCEPT !.status = "canceled"]

\* The update_item of _mark_carrier_opted_out that reverts to the free plan.
OptOutReset(a) ==
    [a EXCEPT !.isSubscribed = Some(FALSE),
              !.plan = Some("free"),
              !.plan_monthly_cap = Some(5),
              !.subscriptionStatus = Some("canceled"),
              !.cancelAtPeriodEnd = Some(FALSE),
              !.currentPeriodEnd = None]

\* A STOP update that leaves plan_monthly_cap as it was.
StopKeepsCap(a) ==
    [OptOutReset(a) EXCEPT !.optedOut = Some(TRUE), !.plan_monthly_cap = a.plan_monthly_cap]

\* The update_item of _handle_stop_keyword.
StopUpdate(a) == [OptOutReset(a) EXCEPT !.optedOut = Some(TRUE)]

\* _handle_stop_keyword: the users table and the processor's subscription
\* it leaves.  cancelOk is false when stripe.Subscription.delete raises (the
\* error is logged and the opt-out goes on), ok is false when the
\* update_item raises.  The confirmation text changes neither.
_handle_stop_keyword(tbl, live, p, cancelOk, ok) ==
    LET u == PhoneUser(tbl, p) IN
    IF u = None THEN [users |-> tbl, stripe |-> live]
    ELSE LET a == Get(tbl[Get(u)]) IN
         [users |-> IF ok THEN PutUser(tbl, Get(u), StopUpdate(a)) ELSE tbl,
          stripe |-> IF HasSubscription(a) /\ cancelOk THEN Cancelled(live) ELSE live]

\* _mark_carrier_opted_out, called by send_message on Twilio error 21610:
\* the user is marked opted out; a subscription is cancelled at the
\* processor and, when that succeeded, the record reverts to the free plan.
_mark_carrier_opted_out(tbl, live, p, cancelOk) ==
    LET u == PhoneUser(tbl, p) IN
    IF u = None THEN [users |-> tbl, stripe |-> live]
    ELSE LET a == Get(tbl[Get(u)])
             marked == [a EXCEPT !.optedOut = Some(TRUE)]
         IN  IF HasSubscription(a) /\ cancelOk
             THEN [users |-> PutUser(tbl, Get(u), OptOutReset(marked)),
                   stripe |-> Cancelled(live)]
             ELSE [users |-> PutUser(tbl, Get(u), marked), stripe |-> live]

\* send_message(to_num, ...): blocked is the carrier block (error 21610).
send_message(tbl, live, p, blocked, cancelOk) ==
    IF blocked THEN _mark_carrier_opted_out(tbl, live, p, cancelOk)
    ELSE [users |-> tbl, stripe |-> live]

\* _handle_start_keyword: optedOut is cleared, then the welcome text is sent.
_handle_start_keyword(tbl, live, p, blocked, cancelOk) ==
    LET u == PhoneUser(tbl, p) IN
    IF u = None THEN send_message(tbl, live, p, blocked, cancelOk)
    ELSE send_message(PutUser(tbl, Get(u), [Get(tbl[Get(u)]) EXCEPT !.optedOut = Some(FALSE)]),
                      live, p, blocked, cancelOk)

\* _handle_help_keyword: the help text is sent.
_handle_help_keyword(tbl, live, p, blocked, cancelOk) ==
    send_message(tbl, live, p, blocked, cancelOk)

\* handler lines 570-583: a keyword command from phone p is handled.
\* N are the lifecycle notifications the command is answered with.
Keyword(after, N) ==
    /\ Room(N)
    /\ users' = after.users
    /\ stripe' = after.stripe
    /\ notices' = Noted(users, N, TRUE)
    /\ UNCHANGED << clock, usage, pc, loc, nudgeMsgs, msgNo, harness,
                   ledger, gateway >>

\* The answer of _handle_stop_keyword to a user who had a subscription:
\* send_cancellation_sms (lines 270-272).
StopAnswer(tbl, p, ok) ==
    IF /\ ok
       /\ PhoneUser(tbl, p) # None
       /\ Get(tbl[Get(PhoneUser(tbl, p))]).isSubscribed = Some(TRUE)
    THEN {[phone |-> p, kind |-> "cancellation"]}
    ELSE {}

Stop(p, cancelOk, ok) ==
    Keyword(_handle_stop_keyword(users, stripe, p, cancelOk, ok), StopAnswer(users, p, ok))

Start(p, blocked, cancelOk) ==
    Keyword(_handle_start_keyword(users, stripe, p, blocked, cancelOk), {})

Help(p, blocked, cancelOk) ==
    Keyword(_handle_help_keyword(users, stripe, p, blocked, cancelOk), {})

\* ------------------------------------ entitlement under events and keywords
\* The processor moves a subscription that has not ended to another status.
StripeLifecycle(status) ==
    /\ stripe.status # "canceled"
    /\ StripeChange([stripe EXCEPT !.status = status])

SubscriptionStatuses == {"active", "trialing", "past_due", "canceled", "unpaid"}

\* The snapshots subscription.updated events carry.
EntitlementSnapshots ==
    Subscriptions(SubscriptionStatuses, {"month", "year"},
                  {None, Some(1738368000)}, {None} \cup {Some(t) : t \in CancelAts})

\* A request whose signature header is missing, whose signature does not
\* verify, or whose payload construct_event rejects.
Unverified(E) == {[e EXCEPT !.sig = sg] : e \in E, sg \in {"missing", "invalid", "bad_payload"}}

\* Verified events of a type the handler does not route.
OtherEvents ==
    {Event("invoice.created", c, Some("sub_1"), None, NoSnap) : c \in Customers}

\* The webhook requests that may arrive.
EntitlementEvents ==
    Events(EntitlementSnapshots) \cup OtherEvents \cup Unverified(Events({}))

\* auth_handler: put_item with isSubscribed False; the user may have
\* registered the phone.
CreatedUser(reg) ==
    [NoUserAttrs EXCEPT !.isSubscribed = Some(FALSE),
                        !.phoneNumber = IF reg THEN Some("p1") ELSE None]

\* A yearly subscription set to end with its period.
EndingYearly ==
    [status |-> "active", interval |-> "year", current_period_end |-> None,
     cancel_at_period_end |-> TRUE, cancel_at |-> None]

\* A monthly subscription with a cancellation scheduled for a date.
CancelScheduled ==
    [status |-> "active", interval |-> "month",
     current_period_end |-> Some(1738368000),
     cancel_at_period_end |-> FALSE, cancel_at |-> Some(1736000000)]

InitEntitlement ==
    /\ clock = FirstMonth
    /\ \E reg \in BOOLEAN :
         /\ users = [u \in Users |-> Some(CreatedUser(reg))]
         /\ usage = [p \in Phones |-> IF reg THEN Some(LinkedUsage("u1")) ELSE None]
    /\ InitProcs
    /\ InitAside
    /\ harness = NoHarness
    /\ stripe \in {ActiveMonthly, EndingYearly, CancelScheduled}

EntitlementNext ==
    \/ \E e \in EntitlementEvents, ok \in BOOLEAN : Deliver(e, ok)
    \/ \E status \in SubscriptionStatuses : StripeLifecycle(status)
    \/ \E p \in Phones, cancelOk \in BOOLEAN, ok \in BOOLEAN : Stop(p, cancelOk, ok)
    \/ \E p \in Phones, blocked \in BOOLEAN, cancelOk \in BOOLEAN : Start(p, blocked, cancelOk)
    \/ \E p \in Phones, blocked \in BOOLEAN, cancelOk \in BOOLEAN : Help(p, blocked, cancelOk)

SpecEntitlement == InitEntitlement /\ [][EntitlementNext]_vars

\* ------------------------------------------- lifecycle notifications
\* The events of the one checkout session of user u1 and of its
\* subscription.
NotifyEvents == {e \in Events({ActiveMonthly}) : e.customer = "cus_1" /\ e.subscription # None}

\* The user has registered the phone; the notification history is kept.
InitNotify ==
    /\ clock = FirstMonth
    /\ users = [u \in Users |-> Some(RegisteredUser("p1"))]
    /\ usage = [p \in Phones |-> Some(LinkedUsage("u1"))]
    /\ InitProcs
    /\ harness = NoHarness
    /\ stripe = ActiveMonthly
    /\ ledger = EmptyLedger
    /\ gateway = IdleGateway
    /\ notices = [NoNotices EXCEPT !.on = TRUE]

NotifyNext ==
    \/ \E e \in NotifyEvents : Deliver(e, TRUE)
    \/ \E status \in SubscriptionStatuses : StripeLifecycle(status)
    \/ \E p \in Phones, cancelOk \in BOOLEAN : Stop(p, cancelOk, TRUE)
    \/ \E p \in Phones : Start(p, FALSE, TRUE)

SpecNotify == InitNotify /\ [][NotifyNext]_vars

\* ------------------------------------------------ delivery cost callbacks
\* float(price): the price in ten-thousandths of the unit; None is the
\* ValueError of a string that is no number.
ToFloat(s) ==
    CASE s = "-0.0079" -> Some(-79)
      [] s = "-0.0158" -> Some(-158)
      [] OTHER -> None

\* int(params.get('NumSegments', '1')); None is the ValueError.
ToInt(s) ==
    CASE s = "1" -> Some(1)
      [] s = "2" -> Some(2)
      [] OTHER -> None

\* parse_twilio_callback: parse_qs drops the fields with a blank value.
parse_twilio_callback(body) ==
    [k \in DOMAIN body |-> IF body[k] = Some("") THEN None ELSE body[k]]

\* The :twilio_costs value of update_sms_cost.
TwilioCosts(price, price_unit, status, num_segments) ==
    [price |-> price, priceUnit |-> price_unit, status |-> status,
     numSegments |-> num_segments]

\* update_sms_cost: whether it returned True, and the table it leaves.
\* The query on MessageUuidIndex finds the item or nothing; the update_item
\* SET costs.twilio = ... is rejected by the store (a ClientError) when the
\* item has no costs map for the path to go through.
update_sms_cost(tbl, message_id, costs) ==
    IF tbl[message_id] = None
    THEN [ok |-> FALSE, ledger |-> tbl]
    ELSE IF Get(tbl[message_id]).costs = None
    THEN [ok |-> FALSE, ledger |-> tbl]
    ELSE [ok |-> TRUE,
          ledger |-> [tbl EXCEPT ![message_id] =
                        Some([Get(@) EXCEPT !.costs = Some([twilio |-> Some(costs)])])]]

\* A handler that takes the gateway's MessageSid for the message id when
\* the callback has no MessageUuid.
CallbackUuidOrSid(params) ==
    IF params.MessageUuid # None THEN params.MessageUuid
    ELSE IF params.MessageSid = Some("SM1") THEN Some("m1")
    ELSE Some("m0")

\* The message id the callback handler reads: params.get('MessageUuid').
CallbackUuid(params) == params.MessageUuid

\* handler of twilio_callback_handler: the response status and the table
\* one callback request leaves.  req.body holds the form fields, req.query
\* the query string of the callback URL, which the handler does not read.
CallbackHandler(tbl, req) ==
    LET params == parse_twilio_callback(req.body)
        num_segments == IF params.NumSegments = None THEN Some(1)
                        ELSE ToInt(Get(params.NumSegments))
        price_unit == IF params.PriceUnit = None THEN "USD" ELSE Get(params.PriceUnit)
        message_uuid == CallbackUuid(params)
    IN  IF num_segments = None THEN [statusCode |-> 500, ledger |-> tbl]
        ELSE IF params.MessageSid = None THEN [statusCode |-> 400, ledger |-> tbl]
        ELSE IF params.Price = None THEN [statusCode |-> 200, ledger |-> tbl]
        ELSE IF ToFloat(Get(params.Price)) = None THEN [statusCode |-> 400, ledger |-> tbl]
        ELSE IF message_uuid = None THEN [statusCode |-> 200, ledger |-> tbl]
        ELSE LET r == update_sms_cost(tbl, Get(message_uuid),
                                      TwilioCosts(Get(ToFloat(Get(params.Price))), price_unit,
                                                  params.MessageStatus, Get(num_segments)))
             IN  [statusCode |-> IF r.ok THEN 200 ELSE 500, ledger |-> r.ledger]

\* The callback request the gateway posts for accepted message n: the
\* status_callback URL as send_sms registered it, query string included,
\* and the gateway's own form fields.
GatewayRequest(n, status, price) ==
    [query |-> [message_uuid |-> Get(gateway.accepted[n]).message_uuid],
     body |-> [MessageSid |-> Some(Get(gateway.accepted[n]).sid),
               MessageStatus |-> Some(status),
               Price |-> price,
               PriceUnit |-> IF price = None THEN None ELSE Some("USD"),
               NumSegments |-> Some("1"),
               MessageUuid |-> None]]

\* The callback requests that reach the endpoint from elsewhere: every
\* combination of form fields, a MessageUuid among them, as in the module's
\* local test event.
CallbackRequests ==
    {[query |-> [message_uuid |-> None],
      body |-> [MessageSid |-> sid, MessageStatus |-> Some(st), Price |-> pr,
                PriceUnit |-> un, NumSegments |-> sg, MessageUuid |-> id]] :
        sid \in {None, Some("SM1")},
        st \in {"sent", "delivered"},
        pr \in {None, Some(""), Some("-0.0079"), Some("-0.0158"), Some("abc")},
        un \in {None, Some("USD")},
        sg \in {None, Some("2"), Some("two")},
        id \in {None} \cup {Some(x) : x \in MessageIds}}

\* The number of messages the gateway has accepted.
Accepted == Cardinality({n \in 1..MaxSends : gateway.accepted[n] # None})

\* send_sms(to_number, message) without a message_id: the record is put
\* (putOk is false when put_item raises, which is logged), the gateway
\* accepts the message with the status callback URL carrying the message id
\* (cbOk is false when that create raises and the retry goes without
\* status_callback), and _update_message_twilio_metadata sets twilioSid.
SendSms(putOk, cbOk) ==
    /\ Accepted < MaxSends
    /\ LET n == Accepted + 1 IN
       /\ ledger' = IF putOk
                    THEN [ledger EXCEPT ![Uuid(n)] =
                            Some([MessageRecord EXCEPT !.twilioSid = Some(Sid(n))])]
                    ELSE ledger
       /\ gateway' = [gateway EXCEPT !.accepted[n] =
                        Some([sid |-> Sid(n),
                              message_uuid |-> IF cbOk THEN Some(Uuid(n)) ELSE None])]
    /\ UNCHANGED << clock, usage, users, pc, loc, nudgeMsgs, stripe, msgNo, harness,
                   notices >>

\* The gateway posts a status callback for a message it accepted with a
\* status callback URL, and the handler answers it.
GatewayCallback(n, status, price) ==
    /\ gateway.accepted[n] # None
    /\ Get(gateway.accepted[n]).message_uuid # None
    /\ LET r == CallbackHandler(ledger, GatewayRequest(n, status, price)) IN
       /\ ledger' = r.ledger
       /\ gateway' = [gateway EXCEPT !.answered[n] = @ \cup {r.statusCode}]
    /\ UNCHANGED << clock, usage, users, pc, loc, nudgeMsgs, stripe, msgNo, harness,
                   notices >>

\* A callback request from elsewhere is handled.
Callback(req) ==
    /\ ledger' = CallbackHandler(ledger, req).ledger
    /\ UNCHANGED << clock, usage, users, pc, loc, nudgeMsgs, stripe, msgNo, harness,
                   gateway, notices >>

\* The table holds one item with a costs map; nothing has been sent.
InitCost ==
    /\ clock = FirstMonth
    /\ users = [u \in Users |-> Some(NewUser)]
    /\ usage = [p \in Phones |-> None]
    /\ InitProcs
    /\ harness = NoHarness
    /\ stripe = ActiveMonthly
    /\ ledger = [EmptyLedger EXCEPT ![Uuid(0)] = Some(CostedRecord)]
    /\ gateway = IdleGateway
    /\ notices = NoNotices

CostNext ==
    \/ \E putOk, cbOk \in BOOLEAN : SendSms(putOk, cbOk)
    \/ \E n \in 1..MaxSends, status \in {"sent", "delivered"},
          price \in {None, Some("-0.0079")} : GatewayCallback(n, status, price)
    \/ \E req \in CallbackRequests : Callback(req)

SpecCost == InitCost /\ [][CostNext]_vars

\* ------------------------------------------------------------ properties
\* The counters of a phone's usage record, 0 while absent.
Sent(p) ==
    IF Attrs(usage[p]).plan_messages_sent = None THEN 0
    ELSE Get(Attrs(usage[p]).plan_messages_sent)

Nudges(p) ==
    IF Attrs(usage[p]).nudges_sent = None THEN 0
    ELSE Get(Attrs(usage[p]).nudges_sent)

\* The profile of the user the phone's usage record is linked to.
LinkedProfile(p) ==
    IF Attrs(usage[p]).userId = None THEN None
    ELSE users[Get(Attrs(usage[p]).userId)]

\* The cap the specification gives a sender: the user's plan_monthly_cap
\* when it is a non-negative integer, FREE_MONTHLY_LIMIT otherwise.
EffectiveCap(profile) ==
    IF profile # None /\ Get(profile).plan_monthly_cap # None
       /\ Get(Get(profile).plan_monthly_cap) >= 0
    THEN Get(Get(profile).plan_monthly_cap)
    ELSE FREE_MONTHLY_LIMIT

\* The harness's calls that returned the updated record, and those made.
Succeeded == {k \in 1..MaxCalls : harness.calls[k] = "updated"}
Called == {k \in 1..MaxCalls : harness.calls[k] # "unused"}
Min(a, b) == IF a <= b THEN a ELSE b

\* C1: of M concurrent consume_message_if_allowed(phone, limit=L) calls on a
\* record in the current period with count c <= L, exactly min(M, L - c)
\* return the updated record and the others return None; each success
\* raises plan_messages_sent by exactly 1 and each failure leaves it as is.
C1_ExactlyMinSucceed ==
    /\ Sent("p1") = harness.c + Cardinality(Succeeded)
    /\ (\A k \in 1..MaxCalls : harness.calls[k] # "pending")
         => Cardinality(Succeeded) = Min(Cardinality(Called), harness.limit - harness.c)

\* C1 witness: all MaxCalls calls returned, some updated and some None.
C1_Witness ==
    /\ \A k \in 1..MaxCalls : harness.calls[k] \in {"updated", "none"}
    /\ \E k \in 1..MaxCalls : harness.calls[k] = "updated"
    /\ \E k \in 1..MaxCalls : harness.calls[k] = "none"
    /\ harness.c > 0

C3_CountNeverDecreases ==
    [][\A p \in Phones :
         (usage[p] # None /\ usage'[p] # None
          /\ Attrs(usage'[p]).periodKey = Attrs(usage[p]).periodKey)
         => Attrs(usage'[p]).plan_messages_sent = None
            \/ Get(Attrs(usage'[p]).plan_messages_sent) >= Sent(p)]_vars

\* The sender of invocation i is unlimited: subscribed, or cap -1.
Unlimited(profile) ==
    /\ profile # None
    /\ \/ Get(profile).isSubscribed = Some(TRUE)
       \/ Get(profile).plan_monthly_cap = Some(-1)

\* C4: for a linked user with isSubscribed true (whatever the cap) or with
\* plan_monthly_cap -1 and isSubscribed false, _evaluate_usage never calls
\* consume_message_if_allowed and returns allowed with limit None.
C4_UnlimitedNeverConsumes ==
    \A i \in Procs :
      Unlimited(loc[i].profile)
      => /\ pc[i] = "identify"
         /\ ~loc[i].consumed
         /\ loc[i].limit = None
         /\ loc[i].reason \in {"subscribed", "unlimited_cap"}

\* C4 witness: the evaluation of a user with cap -1 who is not subscribed
\* has returned.
C4_Witness ==
    \E i \in Procs :
      /\ pc[i] = "identify"
      /\ loc[i].profile # None
      /\ Get(loc[i].profile).isSubscribed = Some(FALSE)
      /\ Get(loc[i].profile).plan_monthly_cap = Some(-1)
      /\ loc[i].reason = "unlimited_cap"

\* C5: the first request of a new period finds the counters zeroed and the
\* periodKey set to the current period before the quota decision, so it is
\* allowed and leaves plan_messages_sent at 1, also for a sender who had
\* exhausted the cap in the period before.
C5_NewPeriodStartsAtZero ==
    \A i \in Procs :
      /\ (pc[i] \in {"getuser", "consume"} /\ loc[i].ret = "eval")
           => /\ Attrs(usage[loc[i].phone]).periodKey = Some(current_period_key(clock))
              /\ loc[i].no = 1 => (Sent(loc[i].phone) = 0 /\ Nudges(loc[i].phone) = 0)
      /\ (pc[i] \in {"identify", "chat", "reply", "done"} /\ loc[i].no = 1)
           => /\ loc[i].reason = "within_cap"
              /\ Sent(loc[i].phone) = 1

\* C5 witness: the sender was refused in the first month, and the first
\* request of the next month has been allowed.
C5_Witness ==
    \E i \in Procs :
      /\ clock = FirstMonth + 1
      /\ pc[i] = "done"
      /\ nudgeMsgs[loc[i].phone][current_period_key(FirstMonth)] > 0
      /\ loc[i].no = 1
      /\ loc[i].reason = "within_cap"
      /\ Sent(loc[i].phone) = 1

\* C6: a phone with no linked user sends six non-keyword messages in one
\* period: messages 1 to 5 are allowed, message 6 is refused with
\* quota_exceeded, exactly one nudge is sent and nudges_sent goes from 0 to
\* 1, and the responder is not invoked for message 6.
C6_SixthMessageRefused ==
    \A i \in Procs :
      (pc[i] = "done" /\ Attrs(usage[loc[i].phone]).userId = None)
      => /\ loc[i].no <= FREE_MONTHLY_LIMIT
              => /\ loc[i].reason = "within_cap"
                 /\ loc[i].chat
                 /\ Nudges(loc[i].phone) = 0
                 /\ nudgeMsgs[loc[i].phone][current_period_key(clock)] = 0
         /\ loc[i].no = FREE_MONTHLY_LIMIT + 1
              => /\ loc[i].reason = "quota_exceeded"
                 /\ ~loc[i].chat
                 /\ ~loc[i].replied
                 /\ loc[i].nudged
                 /\ Nudges(loc[i].phone) = 1
                 /\ nudgeMsgs[loc[i].phone][current_period_key(clock)] = 1

\* C6 witness: the sixth message of the first month has been handled for a
\* phone that had no record and no user.
C6_Witness ==
    \E i \in Procs :
      /\ clock = FirstMonth
      /\ pc[i] = "done"
      /\ loc[i].no = FREE_MONTHLY_LIMIT + 1
      /\ Attrs(usage[loc[i].phone]).userId = None
      /\ loc[i].reason = "quota_exceeded"

\* C7: for a phone and period, the nudge texts sent and the nudges_sent
\* counter never exceed NUDGE_LIMIT, also when denied requests run
\* concurrently.
C7_NudgesBounded ==
    \A p \in Phones :
      /\ Nudges(p) <= NUDGE_LIMIT
      /\ \A k \in PeriodKeys : nudgeMsgs[p][k] <= NUDGE_LIMIT

\* C8: when a store call of the evaluation fails for a reason other than
\* the conditional check, the handler answers 500 and the responder is
\* never invoked and no reply is sent for that message.
C8_FailsClosed ==
    \A i \in Procs :
      loc[i].evalErr
      => /\ pc[i] = "done"
         /\ loc[i].status = 500
         /\ ~loc[i].chat
         /\ ~loc[i].replied
         /\ ~loc[i].nudged

\* C8 witness: the conditional write of consume_message_if_allowed raised.
C8_Witness ==
    \E i \in Procs : loc[i].evalErr /\ loc[i].consumed /\ pc[i] = "done"

\* C9: for a sender who is not unlimited, the limit passed to
\* consume_message_if_allowed is the user's plan_monthly_cap when it is
\* present and non-negative, and FREE_MONTHLY_LIMIT in every other case.
C9_LimitPassed ==
    \A i \in Procs :
      pc[i] = "consume" => loc[i].limit = Some(EffectiveCap(loc[i].profile))

\* C10: for every handled event type and every entitlement, processing
\* the same event a second time in a row leaves the record as it was
\* after the first time.
C10_Idempotent ==
    \A e \in WebhookEvents :
      LET once == WebhookHandler(users, stripe, e, TRUE).users IN
      WebhookHandler(once, stripe, e, TRUE).users = once

\* C10 witness: events have rewritten the entitlement of a user who then
\* fell behind with a payment.
C10_Witness ==
    /\ Get(users["u1"]).subscriptionStatus = Some("past_due")
    /\ Get(users["u1"]).isSubscribed = Some(TRUE)
    /\ Get(users["u1"]).currentPeriodEnd = Some(1738368000)
    /\ stripe.status = "past_due"

\* The requests the webhook handler must reject.
UnverifiedRequests == Unverified(Events(EntitlementSnapshots) \cup OtherEvents)

\* C11: a webhook request whose signature header is missing, whose
\* signature fails verification or whose payload is invalid gets a non-2xx
\* status and no event handler runs: every users item is unchanged.
C11_UnverifiedRejected ==
    \A e \in UnverifiedRequests, ok \in BOOLEAN :
      LET r == WebhookHandler(users, stripe, e, ok) IN
      /\ r.statusCode \notin 200..299
      /\ r.users = users

\* C11 witness: a subscriber whose record the events' handlers would
\* rewrite from a subscription that is now unpaid.
C11_Witness ==
    /\ Get(users["u1"]).stripeCustomerId = Some("cus_1")
    /\ Get(users["u1"]).isSubscribed = Some(TRUE)
    /\ Get(users["u1"]).subscriptionStatus = Some("active")
    /\ stripe.status = "unpaid"

\* C12: after any sequence of webhook events, STOP and START commands and
\* carrier opt-outs applied to a user created with isSubscribed false and
\* no cap, plan_monthly_cap is -1 if and only if isSubscribed is true.
C12_CapIffSubscribed ==
    \A u \in Users :
      users[u] # None
      => (Get(users[u]).plan_monthly_cap = Some(-1)
          <=> Get(users[u]).isSubscribed = Some(TRUE))

\* C12 witness: a subscriber sent STOP, re-subscribed and then fell behind
\* with a payment.
C12_Witness ==
    /\ Get(users["u1"]).optedOut = Some(TRUE)
    /\ Get(users["u1"]).isSubscribed = Some(TRUE)
    /\ Get(users["u1"]).plan_monthly_cap = Some(-1)
    /\ Get(users["u1"]).subscriptionStatus = Some("past_due")

\* The verified events of one type.
EventsOfType(t) == {e \in Events(EntitlementSnapshots) : e.type = t}

\* The user item a verified event leaves for user u.
After(e, u) == Get(WebhookHandler(users, stripe, e, TRUE).users[u])

\* C13: subscription_deleted for a resolvable user whose record has
\* currentPeriodEnd set leaves the attribute absent (not zero), with
\* isSubscribed false, plan free, plan_monthly_cap 5, subscriptionStatus
\* canceled and cancelAtPeriodEnd false.
C13_DeletedRemovesPeriodEnd ==
    \A e \in EventsOfType("customer.subscription.deleted") :
      LET u == Resolve(users, e.customer) IN
      (u # None /\ Get(users[Get(u)]).currentPeriodEnd # None)
      => /\ After(e, Get(u)).currentPeriodEnd = None
         /\ After(e, Get(u)).isSubscribed = Some(FALSE)
         /\ After(e, Get(u)).plan = Some("free")
         /\ After(e, Get(u)).plan_monthly_cap = Some(5)
         /\ After(e, Get(u)).subscriptionStatus = Some("canceled")
         /\ After(e, Get(u)).cancelAtPeriodEnd = Some(FALSE)

\* C13 witness: a subscriber with a period end whose cancellation is due.
C13_Witness ==
    /\ Resolve(users, "cus_1") = Some("u1")
    /\ Get(users["u1"]).currentPeriodEnd = Some(1738368000)
    /\ Get(users["u1"]).isSubscribed = Some(TRUE)
    /\ Get(users["u1"]).cancelAtPeriodEnd = Some(TRUE)

\* C14: in every state reachable by webhook events and STOP commands a
\* users item has currentPeriodEnd only if isSubscribed is true.
C14_PeriodEndOnlyWhileSubscribed ==
    \A u \in Users :
      (users[u] # None /\ Get(users[u]).currentPeriodEnd # None)
      => Get(users[u]).isSubscribed = Some(TRUE)

C16_UpdatedSetsEntitlement ==
    \A e \in EventsOfType("customer.subscription.updated") :
      LET u == Resolve(users, e.customer) IN
      u # None
      => LET a == After(e, Get(u))
             paid == e.snap.status \in {"active", "trialing"}
         IN  /\ a.isSubscribed = Some(paid)
             /\ a.plan_monthly_cap = Some(IF paid THEN -1 ELSE 5)
             /\ a.plan = Some(IF e.snap.interval = "month" THEN "monthly" ELSE "annual")
             /\ a.subscriptionStatus = Some(e.snap.status)
             /\ a.cancelAtPeriodEnd
                  = Some(e.snap.cancel_at_period_end \/ e.snap.cancel_at # None)

\* C16 witness: an update with a cancel_at timestamp and no
\* cancel_at_period_end flag has been processed.
C16_Witness ==
    /\ Resolve(users, "cus_1") = Some("u1")
    /\ Get(users["u1"]).subscriptionStatus = Some("trialing")
    /\ Get(users["u1"]).plan = Some("annual")
    /\ Get(users["u1"]).cancelAtPeriodEnd = Some(TRUE)
    /\ ~stripe.cancel_at_period_end

\* C17: payment_failed for a resolvable customer stores the live status as
\* subscriptionStatus and keeps isSubscribed true with plan_monthly_cap -1
\* when that status is past_due, and sets false and 5 for every other.
C17_PaymentFailedGrace ==
    \A e \in EventsOfType("invoice.payment_failed") :
      LET u == Resolve(users, e.customer) IN
      (u # None /\ e.subscription # None)
      => LET a == After(e, Get(u)) IN
         /\ a.subscriptionStatus = Some(stripe.status)
         /\ stripe.status = "past_due"
              => (a.isSubscribed = Some(TRUE) /\ a.plan_monthly_cap = Some(-1))
         /\ stripe.status # "past_due"
              => (a.isSubscribed = Some(FALSE) /\ a.plan_monthly_cap = Some(5))

\* C17 witness: a failed payment with the live status past_due has been
\* processed for a subscriber.
C17_Witness ==
    /\ Resolve(users, "cus_1") = Some("u1")
    /\ stripe.status = "past_due"
    /\ Get(users["u1"]).subscriptionStatus = Some("past_due")
    /\ Get(users["u1"]).isSubscribed = Some(TRUE)
    /\ Get(users["u1"]).plan_monthly_cap = Some(-1)

HandledTypes ==
    {"checkout.session.completed", "customer.subscription.updated",
     "customer.subscription.deleted", "invoice.payment_failed",
     "invoice.payment_succeeded"}

\* An event whose user cannot be resolved.
Unresolvable(e) ==
    IF e.type = "checkout.session.completed" THEN e.userId = None
    ELSE \A u \in Users :
           users[u] # None => Get(users[u]).stripeCustomerId # Some(e.customer)

\* C19: a verified event of a type other than the five handled ones, or
\* one whose user cannot be resolved, is answered 200 and leaves every
\* users item unchanged.
C19_UnhandledAcknowledged ==
    \A e \in Events(EntitlementSnapshots) \cup OtherEvents :
      (e.type \notin HandledTypes \/ Unresolvable(e))
      => WebhookHandler(users, stripe, e, TRUE) = [statusCode |-> 200, users |-> users]

\* C19 witness: a subscriber exists under another customer id than the
\* event's, with a period end the handlers would remove.
C19_Witness ==
    /\ Resolve(users, "cus_x") = None
    /\ Resolve(users, "cus_1") = Some("u1")
    /\ Get(users["u1"]).isSubscribed = Some(TRUE)
    /\ Get(users["u1"]).currentPeriodEnd # None
    /\ Get(users["u1"]).optedOut = Some(FALSE)

\* C20: no reachable state has the item of a user with an external
\* subscription reset to free and opted out while that subscription is
\* still active.
C20_ResetImpliesCancelled ==
    \A u \in Users :
      (/\ users[u] # None
       /\ Get(users[u]).stripeSubscriptionId # None
       /\ Get(users[u]).optedOut = Some(TRUE)
       /\ Get(users[u]).isSubscribed = Some(FALSE)
       /\ Get(users[u]).plan = Some("free")
       /\ Get(users[u]).plan_monthly_cap = Some(5))
      => stripe.status \notin {"active", "trialing"}

\* The requests that carry a MessageSid, a numeric price, a numeric or no
\* NumSegments, and a message UUID.
PricedRequests ==
    {req \in CallbackRequests :
       /\ req.body.MessageSid # None
       /\ req.body.Price \in {Some("-0.0079"), Some("-0.0158")}
       /\ req.body.NumSegments # Some("two")
       /\ req.body.MessageUuid # None}

\* The cost fields a priced request carries.
CostOf(req) ==
    TwilioCosts(Get(ToFloat(Get(req.body.Price))),
                IF req.body.PriceUnit = None THEN "USD" ELSE Get(req.body.PriceUnit),
                req.body.MessageStatus,
                IF req.body.NumSegments = None THEN 1 ELSE Get(ToInt(Get(req.body.NumSegments))))

\* The identifiers the table has an item for.
Entries(tbl) == {x \in MessageIds : tbl[x] # None}

\* C21: processing the same priced callback twice for an existing ledger
\* entry leaves the ledger with the entries it had and that entry's cost
\* fields equal to the callback's values.
C21_CostAttachIdempotent ==
    \A req \in PricedRequests :
      LET id == Get(req.body.MessageUuid)
          once == CallbackHandler(ledger, req).ledger
          twice == CallbackHandler(once, req).ledger
      IN  ledger[id] # None
          => /\ Entries(twice) = Entries(ledger)
             /\ Get(twice[id]).costs = Some([twilio |-> Some(CostOf(req))])

\* C22: the id send_sms hands to the gateway with the status callback is
\* the id the callback handler reads from the callback the gateway posts.
C22_CorrelationIdReadBack ==
    \A n \in 1..MaxSends :
      (gateway.accepted[n] # None /\ Get(gateway.accepted[n]).message_uuid # None)
      => \A status \in {"sent", "delivered"}, price \in {None, Some("-0.0079")} :
           CallbackUuid(parse_twilio_callback(GatewayRequest(n, status, price).body))
             = Get(gateway.accepted[n]).message_uuid

\* C23: a priced callback whose message UUID matches no ledger entry is
\* answered with a 2xx status and leaves the ledger unchanged.
C23_LookupMissAcknowledged ==
    \A req \in PricedRequests :
      ledger[Get(req.body.MessageUuid)] = None
      => /\ CallbackHandler(ledger, req).statusCode \in 200..299
         /\ CallbackHandler(ledger, req).ledger = ledger

\* The requests with a MessageSid and a numeric or no NumSegments that carry
\* no price (absent or empty), or a numeric price and no message UUID: the
\* ones from elsewhere and the ones the gateway posts.
UnpricedOrUnthreaded ==
    {req \in CallbackRequests
               \cup {GatewayRequest(n, status, price) :
                       n \in {k \in 1..MaxSends : gateway.accepted[k] # None},
                       status \in {"sent", "delivered"},
                       price \in {None, Some("-0.0079")}} :
       /\ req.body.MessageSid # None
       /\ req.body.NumSegments # Some("two")
       /\ \/ req.body.Price \in {None, Some("")}
          \/ /\ req.body.Price \in {Some("-0.0079"), Some("-0.0158")}
             /\ req.body.MessageUuid = None}

UpdatedFields ==
    {"plan", "plan_monthly_cap", "isSubscribed", "subscriptionStatus",
     "cancelAtPeriodEnd", "currentPeriodEnd"}

\* Other records the user could hold when the event is processed.
StartingRecords(a) ==
    {[a EXCEPT !.currentPeriodEnd = t, !.isSubscribed = Some(s)] :
        t \in {None} \cup {Some(x) : x \in PeriodEnds}, s \in BOOLEAN}

\* C25: the fields subscription_updated writes depend on the event's
\* snapshot only: from any two starting records of the user, processing
\* the same event yields the same values of those fields.
C25_SnapshotDeterminesFields ==
    \A e \in EventsOfType("customer.subscription.updated") :
      LET u == Resolve(users, e.customer) IN
      u # None
      => \A b \in StartingRecords(Get(users[Get(u)])), f \in UpdatedFields :
           Get(WebhookHandler(PutUser(users, Get(u), b), stripe, e, TRUE).users[Get(u)])[f]
             = After(e, Get(u))[f]

\* C26: across any sequence of deliveries that includes redeliveries of the
\* one checkout_completed event, at most one subscription confirmation is
\* sent to the user's phone.
C26_ConfirmationOnce ==
    \A p \in Phones : notices.sent[p]["confirmation"] <= 1

\* C29: no lifecycle notification other than the reply to a keyword is
\* sent to a phone while its user's record has optedOut true.
C29_SilentWhileOptedOut ==
    \A p \in Phones : notices.optedOut[p] = {}

\* C27: on a denied message the handler, when the usage record it was
\* denied on has nudges_sent below NUDGE_LIMIT, increments nudges_sent by
\* exactly 1 and sends the quota nudge, and otherwise sends nothing and
\* leaves nudges_sent as it is; in both cases it answers 200 and does not
\* invoke the responder.
C27_DeniedNudgeThrottled ==
    [][\A i \in Procs : \A q \in Phones :
         /\ (pc[i] # "nudge_inc" /\ pc'[i] = "nudge_inc" /\ loc'[i].phone = q)
              => /\ loc'[i].reason = "quota_exceeded"
                 /\ _should_nudge(loc'[i].usage)
         /\ (pc[i] = "nudge_inc" /\ pc'[i] # "nudge_inc" /\ loc[i].phone = q)
              => /\ pc'[i] = "nudge_send"
                 /\ Attrs(usage'[q]).nudges_sent = Some(Nudges(q) + 1)
         /\ (pc[i] = "nudge_send" /\ pc'[i] # "nudge_send" /\ loc[i].phone = q)
              => /\ pc'[i] = "done"
                 /\ loc'[i].status = 200
                 /\ loc'[i].nudged
                 /\ ~loc'[i].chat
                 /\ \E k \in PeriodKeys :
                      nudgeMsgs' = [nudgeMsgs EXCEPT ![q][k] = @ + 1]
         /\ (/\ pc[i] \notin {"nudge_send", "done"}
             /\ pc'[i] = "done"
             /\ loc'[i].reason = "quota_exceeded"
             /\ loc'[i].phone = q)
              => /\ Nudges(q) >= NUDGE_LIMIT
                 /\ loc'[i].status = 200
                 /\ ~loc'[i].nudged
                 /\ ~loc'[i].chat
                 /\ usage' = usage
                 /\ nudgeMsgs' = nudgeMsgs
      ]_vars

\* C27 witness: two denied messages have been answered, one with the nudge
\* that took nudges_sent to NUDGE_LIMIT and one with nothing.
C27_Witness ==
    \E i, j \in Procs :
      /\ pc[i] = "done" /\ pc[j] = "done"
      /\ loc[i].reason = "quota_exceeded" /\ loc[i].nudged /\ loc[i].status = 200
      /\ loc[j].reason = "quota_exceeded" /\ ~loc[j].nudged /\ loc[j].status = 200
      /\ Nudges(loc[i].phone) = NUDGE_LIMIT

\* The messages the record of phone q counts for month m.
SentIn(q, m) ==
    IF Attrs(usage[q]).periodKey = Some(current_period_key(m)) THEN Sent(q) ELSE 0

\* C28: _evaluate_usage denies with quota_exceeded only when the sender's
\* plan_messages_sent for the current period is at least the limit: when
\* the conditional write of consume_message_if_allowed is refused, the
\* record counts at least limit messages for a month the clock showed
\* during the call.
C28_DeniedOnlyAtLimit ==
    [][\A i \in Procs : \A q \in Phones :
         (pc[i] = "consume" /\ pc'[i] = "get_read" /\ loc[i].phone = q)
         => \E m \in loc[i].seen..clock : SentIn(q, m) >= Get(loc[i].limit)
      ]_vars

\* C30: after any sequence of webhook events and STOP commands, a users
\* item with isSubscribed true has plan monthly or annual, and one with
\* plan free has isSubscribed false.
C30_SubscribedHasPaidPlan ==
    \A u \in Users :
      users[u] # None
      => /\ Get(users[u]).isSubscribed = Some(TRUE)
              => Get(users[u]).plan \in {Some("monthly"), Some("annual")}
         /\ Get(users[u]).plan = Some("free")
              => Get(users[u]).isSubscribed = Some(FALSE)

====
